---- MODULE Spec2Model ----
(***************************************************************************)
(* A model of Godoty's sidecar supervisor and sidecar updater.             *)
(*                                                                         *)
(* Two builds of the supervisor live in the repository:                    *)
(*   "mgr"   src/src-tauri/src/sidecar.rs          (SidecarManager)        *)
(*   "brain" src/desktop/src-tauri/src/sidecar.rs  (spawn_brain, ...)      *)
(* The variable `variant` says which of them a behaviour is a run of.      *)
(* Commands are async Tauri commands run on a multi-threaded runtime, so   *)
(* each command is a thread whose steps are the code's lock acquisitions,  *)
(* awaits, sleeps and system calls.                                        *)
(***************************************************************************)
EXTENDS Integers, Sequences, FiniteSets, TLC

\* ------------------------------------------------------------- bounds
NThreads == 2
MaxPid == 3
BinLen == 2
MaxVer == 1
NProcs == 3

Threads == 1..NThreads
Insts == 1..NThreads
Pids == 1..MaxPid
None == 0

VARIABLES
    variant,    \* which build runs: "mgr" | "brain", or "reclaim" for the reclaimer alone
    release,    \* cfg(not(debug_assertions)): the build runs cleanup_stale_sidecar
    inst,       \* thread -> the application instance it belongs to
    phase,      \* instance -> "boot" | "setup" | "run" | "exited"
    child,      \* instance -> the handle store (SidecarState.child / BRAIN_PROCESS)
    alive,      \* the live sidecar processes
    owner,      \* the process listening on the port, or None
    spawner,    \* live process -> the instance that spawned it (0: an earlier session)
    pc,         \* thread -> its position in the call it runs
    op,         \* thread -> the call it runs
    loc,        \* thread -> the Child it spawned and has not stored yet
    ret,        \* the return made by the last step, if it made one: thread, call, value
    bin,        \* the file at the installation path
    old,        \* the file at the installation path with extension .old
    running,    \* BRAIN_RUNNING
    lock,       \* the thread holding the BRAIN_PROCESS mutex across steps, or None
    rx,         \* process -> its event task: "none" | "open" | "clear"
    job,        \* thread -> the update it performs: its assets, what it has done
    rc,         \* one run of cleanup_stale_sidecar on a machine with other programs
    wt,         \* one run of wait_for_healthy / wait_for_brain_ready, probe by probe
    call        \* one call of a version function: its arguments and its result

config == <<variant, release, inst>>
procVars == <<alive, owner, spawner>>
fileVars == <<bin, old>>
brainVars == <<running, lock, rx>>
vars == <<variant, release, inst, phase, child, alive, owner, spawner, pc, op, loc, ret,
          bin, old, running, lock, rx, job, rc, wt, call>>

\* ------------------------------------------------------------- files

\* A file: whether it exists, its bytes, and its execute permission. A binary of
\* version v is BinLen bytes, all v; a shorter file is a partly written one.
Absent == [exists |-> FALSE, data |-> <<>>, exec |-> FALSE]
Binary(v) == [i \in 1..BinLen |-> v]
Installed(v) == [exists |-> TRUE, data |-> Binary(v), exec |-> TRUE]
Whole(f) == f.exists /\ Len(f.data) = BinLen
\* The binary find_bundled_binary finds in the resource directory.
Bundled == Binary(0)

\* ---------------------------------------------------- release assets

\* str.contains(sub) and str.ends_with(suffix), on sequences of characters or words.
Contains(s, sub) ==
    \E i \in 0..(Len(s) - Len(sub)) : SubSeq(s, i + 1, i + Len(sub)) = sub
EndsWith(s, suffix) ==
    Len(suffix) <= Len(s) /\ SubSeq(s, Len(s) - Len(suffix) + 1, Len(s)) = suffix

\* get_target_asset_name, on linux.
TARGET == <<"x86_64-unknown-linux-gnu">>

\* The entries of an archive: a directory, an unrelated file, the executable.
DirEntry == [name |-> <<"opencode", "/">>, data |-> <<>>]
DocEntry == [name |-> <<"README">>, data |-> [i \in 1..BinLen |-> -1]]
ExeEntry(v) == [name |-> <<"bin", "/", "opencode", "-cli">>, data |-> Binary(v)]

\* The assets of a release: a bare executable, an archive, another platform's.
ExeAsset(v) ==
    [name |-> <<"opencode", "-cli", "-">> \o TARGET,
     readable |-> TRUE, entries |-> <<>>, data |-> Binary(v)]
ZipAsset(entries, readable) ==
    [name |-> <<"opencode", "-">> \o TARGET \o <<".zip">>,
     readable |-> readable, entries |-> entries, data |-> <<>>]
OtherAsset ==
    [name |-> <<"opencode", "-", "aarch64-apple-darwin", ".zip">>,
     readable |-> TRUE, entries |-> <<>>, data |-> <<>>]

\* The releases the update command is given.
Releases ==
    {<<OtherAsset>>}
        \cup {<<OtherAsset, ExeAsset(v)>> : v \in 1..MaxVer}
        \cup {<<ZipAsset(<<DirEntry, DocEntry, ExeEntry(v)>>, TRUE)>> : v \in 1..MaxVer}
        \cup {<<ZipAsset(<<DirEntry, DocEntry>>, TRUE)>>, <<ZipAsset(<<>>, FALSE)>>}

\* perform_update: the asset whose name contains the target.
AssetMatches(a) == Contains(a.name, TARGET)
\* A match that does not skip the directories.
EntryMatchesDirs(e) == Contains(e.name, <<"opencode">>)
\* perform_update: name.contains("opencode") && !name.ends_with("/")
EntryMatches(e) == Contains(e.name, <<"opencode">>) /\ ~EndsWith(e.name, <<"/">>)

\* release.assets.iter().find(..): the index of the first asset that matches, or 0.
FirstAsset(assets) ==
    IF \E i \in 1..Len(assets) : AssetMatches(assets[i])
    THEN CHOOSE i \in 1..Len(assets) :
            AssetMatches(assets[i]) /\ \A j \in 1..(i - 1) : ~AssetMatches(assets[j])
    ELSE 0

\* The loop over archive.by_index(i): the index of the first entry that matches, or 0.
FirstEntry(entries) ==
    IF \E i \in 1..Len(entries) : EntryMatches(entries[i])
    THEN CHOOSE i \in 1..Len(entries) :
            EntryMatches(entries[i]) /\ \A j \in 1..(i - 1) : ~EntryMatches(entries[j])
    ELSE 0

IsZip(a) == EndsWith(a.name, <<".zip">>)

\* The bytes perform_update copies to the installation path.
Payload(a) ==
    IF IsZip(a) THEN a.entries[FirstEntry(a.entries)].data ELSE a.data

\* ----------------------------------------------------------- versions

\* Strings are sequences of characters.
Digits == {"0", "1", "2", "3", "4", "5", "6", "7", "8", "9"}
DigitValue(c) ==
    CASE c = "0" -> 0 [] c = "1" -> 1 [] c = "2" -> 2 [] c = "3" -> 3 [] c = "4" -> 4
      [] c = "5" -> 5 [] c = "6" -> 6 [] c = "7" -> 7 [] c = "8" -> 8 [] c = "9" -> 9

\* The "not installed" version.
SENTINEL == <<"0", ".", "0", ".", "0">>

\* str.trim_start_matches('v'): every leading "v" is removed.
RECURSIVE StripV(_)
StripV(s) == IF s # <<>> /\ s[1] = "v" THEN StripV(Tail(s)) ELSE s

\* str.split(sep): the pieces of s between the separators.
RECURSIVE Split(_, _)
Split(s, sep) ==
    IF \E i \in 1..Len(s) : s[i] = sep
    THEN LET i == CHOOSE k \in 1..Len(s) : s[k] = sep /\ \A j \in 1..(k - 1) : s[j] # sep
         IN <<SubSeq(s, 1, i - 1)>> \o Split(SubSeq(s, i + 1, Len(s)), sep)
    ELSE <<s>>

\* A numeric identifier of a semantic version: digits, with no leading zero.
IsNumber(c) ==
    /\ c # <<>>
    /\ \A i \in 1..Len(c) : c[i] \in Digits
    /\ Len(c) > 1 => c[1] # "0"
RECURSIVE Number(_)
Number(c) ==
    IF c = <<>> THEN 0 ELSE 10 * Number(SubSeq(c, 1, Len(c) - 1)) + DigitValue(c[Len(c)])

\* semver::Version::parse, for strings without pre-release or build parts: three
\* numeric identifiers separated by dots.
SemverParse(s) ==
    LET parts == Split(s, ".")
    IN IF Len(parts) = 3 /\ \A i \in 1..3 : IsNumber(parts[i])
       THEN [ok |-> TRUE, v |-> <<Number(parts[1]), Number(parts[2]), Number(parts[3])>>]
       ELSE [ok |-> FALSE, v |-> <<0, 0, 0>>]

\* A comparison that takes equal versions for greater.
GreaterOrEqual(a, b) ==
    \/ a[1] > b[1]
    \/ a[1] = b[1] /\ a[2] > b[2]
    \/ a[1] = b[1] /\ a[2] = b[2] /\ a[3] >= b[3]

\* semver::Version's ordering, latest > current: major, then minor, then patch.
Greater(a, b) ==
    \/ a[1] > b[1]
    \/ a[1] = b[1] /\ a[2] > b[2]
    \/ a[1] = b[1] /\ a[2] = b[2] /\ a[3] > b[3]

\* A fallback that takes the sentinel for an update.
DiffersOnly(latest, current) == latest # current

\* check_sidecar_update, when a string is no semantic version:
\* latest_ver_str != current_ver_str && latest_ver_str != "0.0.0"
Differs(latest, current) == latest # current /\ latest # SENTINEL

\* check_sidecar_update: whether an update is available, from the installed version
\* and the tag of the latest release.
IsUpdateAvailable(current, latest) ==
    LET l == StripV(latest)
        c == StripV(current)
    IN IF SemverParse(l).ok /\ SemverParse(c).ok
       THEN Greater(SemverParse(l).v, SemverParse(c).v)
       ELSE Differs(l, c)

\* The version strings the comparison is given: semantic versions with and without a
\* leading "v", and strings that are none.
SemverStrings ==
    {SENTINEL}
        \cup {ma \o <<".">> \o mi \o <<".">> \o pa :
                 ma \in {<<"0">>, <<"1">>}, mi \in {<<"2">>, <<"3">>, <<"1", "0">>},
                 pa \in {<<"0">>, <<"9">>}}
OtherStrings ==
    {<<>>, <<"1", ".", "2">>, <<"0", "1", ".", "2", ".", "0">>, <<"n", "i", "g", "h", "t", "l", "y", "-", "b", "u", "i", "l", "d", "-", "7">>}
VersionStrings ==
    SemverStrings \cup OtherStrings \cup {<<"v">> \o x : x \in SemverStrings \cup OtherStrings}

\* str.trim() and str.split_whitespace().last(), the latter <<>> when there is no word.
Whitespace == {" ", "\n", "\t"}
RECURSIVE Trim(_)
Trim(s) ==
    IF s = <<>> THEN s
    ELSE IF s[1] \in Whitespace THEN Trim(Tail(s))
    ELSE IF s[Len(s)] \in Whitespace THEN Trim(SubSeq(s, 1, Len(s) - 1))
    ELSE s
\* The first word, where the last one is meant.
FirstWord(s) ==
    LET t == Trim(s)
        ends == {i \in 1..Len(t) : t[i] \in Whitespace}
    IN IF ends = {} THEN t
       ELSE SubSeq(t, 1, (CHOOSE i \in ends : \A j \in ends : i <= j) - 1)
RECURSIVE LastWord(_)
LastWord(s) ==
    IF s = <<>> THEN <<>>
    ELSE IF s[Len(s)] \in Whitespace THEN LastWord(SubSeq(s, 1, Len(s) - 1))
    ELSE LET gaps == {i \in 1..Len(s) : s[i] \in Whitespace}
         IN IF gaps = {} THEN s
            ELSE SubSeq(s, (CHOOSE i \in gaps : \A j \in gaps : i >= j) + 1, Len(s))

\* Updater::get_current_version. path: whether get_sidecar_path resolves; exists:
\* whether there is a file at the path; exec: "cannot run" | "nonzero" | "ok", what
\* running `opencode-cli --version` comes to; stdout: what it prints. The result is an
\* error or a version, with whether the binary was invoked.
get_current_version(path, exists, exec, stdout) ==
    IF path # "ok" THEN [err |-> TRUE, value |-> <<>>, invoked |-> FALSE]
    ELSE IF ~exists THEN [err |-> FALSE, value |-> SENTINEL, invoked |-> FALSE]
    ELSE IF exec = "cannot run" THEN [err |-> TRUE, value |-> <<>>, invoked |-> TRUE]
    ELSE IF exec = "nonzero" THEN [err |-> FALSE, value |-> SENTINEL, invoked |-> TRUE]
    ELSE LET version_str == Trim(stdout)
             last == LastWord(version_str)
         IN [err |-> FALSE, invoked |-> TRUE,
             value |-> IF Contains(last, <<".">>) THEN last ELSE version_str]

\* What the binary may print for --version.
Stdouts ==
    {<<"o", "p", "e", "n", "c", "o", "d", "e", " ", "1", ".", "4", ".", "2">>,
     <<"1", ".", "4", ".", "2", "\n">>, <<"o", "p", "e", "n", "c", "o", "d", "e">>,
     <<" ", " ", "o", "p", "e", "n", "c", "o", "d", "e", " ", "c", "l", "i", " ", "\n">>, <<>>,
     <<"o", "p", "e", "n", "c", "o", "d", "e", " ", "1", ".", "4", ".", "2", " ", "b", "e", "t", "a">>, <<"v", "0", ".", "1", "\t">>}

NoCall ==
    [f |-> "none", current |-> <<>>, latest |-> <<>>, done |-> FALSE, out |-> FALSE,
     path |-> "ok", exists |-> FALSE, exec |-> "ok", stdout |-> <<>>,
     res |-> [err |-> FALSE, value |-> <<>>, invoked |-> FALSE]]

\* ------------------------------------------------- the health probe

\* wait_for_healthy gives up when attempts > 30.
WAIT_ATTEMPTS == 30
\* STARTUP_TIMEOUT (30 s) and HEALTH_CHECK_TIMEOUT (2 s), in units of
\* STARTUP_POLL_INTERVAL (200 ms).
STARTUP_POLLS == 150
HEALTH_POLLS == 10

\* The status codes, bodies and responses a probe may read, as sequences of words and
\* characters; and the outcomes of a probe.
StatusCodes == {<<"2", "0", "0">>, <<"2", "0", "4">>, <<"4", "0", "4">>, <<"5", "0", "0">>}
Bodies == {<<>>, <<"o", "k">>, <<"HTTP/1.1", " ", "2", "0", "0">>}
Response(version, code, body) ==
    [kind |-> "response", code |-> code,
     text |-> <<version, " ">> \o code \o <<"\r\n\r\n">> \o body]
Failure(kind) == [kind |-> kind, code |-> <<>>, text |-> <<>>]
Outcomes ==
    {Failure(k) : k \in {"bad port", "refused", "connect timeout", "write failed",
                         "read timeout", "empty read"}}
        \cup {Response(v, c, b) : v \in {"HTTP/1.1", "HTTP/1.0"}, c \in StatusCodes,
                                  b \in Bodies}

\* is_sidecar_running: true when the bytes read contain "HTTP/1.1 200" or
\* "HTTP/1.0 200"; false for an address that does not parse, a failed connect, a failed
\* write, a failed or empty read.
ProbeMgr(o) ==
    /\ o.kind = "response"
    /\ \/ Contains(o.text, <<"HTTP/1.1", " ", "2", "0", "0">>)
       \/ Contains(o.text, <<"HTTP/1.0", " ", "2", "0", "0">>)

\* check_brain_health: response.status().is_success(), false for every error.
ProbeBrain(o) == o.kind = "response" /\ o.code[1] = "2"

NoWait == [build |-> "none", step |-> "none", attempts |-> 0, elapsed |-> 0,
           last |-> Failure("none"), result |-> "none"]

\* --------------------------------------------------------- processes

\* Names as ps prints them, as sequences of characters.
OPENCODE == <<"o", "p", "e", "n", "c", "o", "d", "e">>
SIDECAR_COMM == OPENCODE \o <<"-", "c", "l", "i">>
HOST_COMM == <<"g", "o", "d", "o", "t", "y">>

\* cleanup_stale_sidecar, first pass: every line of `ps -A -o pid,comm` (tab: pid ->
\* comm) whose comm contains "opencode" and whose pid is not the current one is killed.
NameSweep(tab, current) ==
    {p \in DOMAIN tab : Contains(tab[p], OPENCODE) /\ p # current}

\* A sweep of the port that does not look at the names.
PortSweepAnyName(tab, listeners) == listeners \cap DOMAIN tab

\* cleanup_stale_sidecar, second pass: of the pids lsof lists as listening on the
\* port, those whose `ps -p pid -o comm=` contains "opencode" are killed.
PortSweep(tab, listeners) ==
    {p \in listeners \cap DOMAIN tab : Contains(tab[p], OPENCODE)}

\* The process names of the machine the reclaimer is run on alone: two sidecars'
\* names and two other programs'.
RcNames == {SIDECAR_COMM, OPENCODE, HOST_COMM, <<"n", "o", "d", "e">>}
RcPids == 1..NProcs
NoRc == [tab |-> <<>>, live |-> {}, listen |-> {}, self |-> None, step |-> "none",
         sig |-> {}]
\* What ps shows of the machine: the names of its live processes.
RcTable == [p \in rc.live |-> rc.tab[p]]

\* perform_update: `pkill -f opencode-cli` signals every process whose command line
\* contains "opencode-cli".
PkillSweep(tab) == {p \in DOMAIN tab : Contains(tab[p], SIDECAR_COMM)}

\* The pid of the application instance i itself.
HostPid(i) == MaxPid + i

\* What ps shows in the supervisor's world: the sidecars and the applications.
PsTable ==
    [p \in alive \cup {HostPid(i) : i \in Insts} |->
        IF p \in alive THEN SIDECAR_COMM ELSE HOST_COMM]

\* The health probe: a sidecar listening on the port answers GET /health with 200.
is_sidecar_running == owner # None /\ owner \in alive

\* A pid no live process, handle store or thread still refers to.
Referenced ==
    alive \cup {child[i] : i \in Insts} \cup {loc[t] : t \in Threads}
          \cup {p \in Pids : rx[p] # "none"}
FreePids == Pids \ Referenced
FreshPid == CHOOSE p \in FreePids : \A q \in FreePids : p <= q

\* The processes `dead` exit: the port is released, nobody remembers the spawner.
Exit(dead) ==
    /\ alive' = alive \ dead
    /\ owner' = IF owner \in dead THEN None ELSE owner
    /\ spawner' = [p \in Pids |-> IF p \in dead THEN 0 ELSE spawner[p]]

\* What a call has noted: the release assets, what became of the binary and the file
\* at the installation path as an update began; whether a shutdown began with the
\* handle store empty, and the running flag it began with; the child in the handle
\* store that the update's pkill has ended.
NoJob ==
    [assets |-> <<>>, backup |-> "none", bin0 |-> Absent, found |-> <<FALSE, FALSE>>,
     killed |-> {}]

\* What a shutdown notes as it begins: whether the handle store h is empty and, if it
\* is, the running flag.
Found(h) == IF h = None THEN <<TRUE, running>> ELSE <<FALSE, FALSE>>

NoRet == [t |-> 0, o |-> "none", r |-> "none"]

\* A call returns r to its caller; ret holds the return in the state it is made in.
Return(t, r) ==
    /\ pc' = [pc EXCEPT ![t] = "idle"]
    /\ op' = [op EXCEPT ![t] = "none"]
    /\ loc' = [loc EXCEPT ![t] = None]
    /\ ret' = [t |-> t, o |-> op[t], r |-> r]
    /\ job' = [job EXCEPT ![t] = NoJob]
    /\ phase' = [phase EXCEPT ![inst[t]] =
                    IF op[t] = "setup" THEN "run"
                    ELSE IF op[t] = "exit" THEN "exited" ELSE @]

Goto(t, label) ==
    /\ pc' = [pc EXCEPT ![t] = label]
    /\ ret' = NoRet
    /\ UNCHANGED <<op, loc, phase, job>>

\* ------------------------------------------- src-tauri: SidecarManager

\* lib.rs setup: the main thread runs start_sidecar before any command is served.
MgrSetup(t) ==
    /\ variant = "mgr" /\ pc[t] = "idle" /\ phase[inst[t]] = "boot"
    /\ op' = [op EXCEPT ![t] = "setup"]
    /\ pc' = [pc EXCEPT ![t] = "health"]
    /\ phase' = [phase EXCEPT ![inst[t]] = "setup"]
    /\ ret' = NoRet
    /\ UNCHANGED <<config, rc, wt, call, child, procVars, loc, fileVars, brainVars, job>>

\* A restart that goes to start_sidecar with no shutdown before it.
MgrRestartStartsFirst(t) ==
    /\ variant = "mgr" /\ pc[t] = "idle" /\ phase[inst[t]] = "run"
    /\ op' = [op EXCEPT ![t] = "restart"]
    /\ pc' = [pc EXCEPT ![t] = "health"]
    /\ ret' = NoRet
    /\ UNCHANGED <<config, rc, wt, call, phase, child, procVars, loc, fileVars,
                   brainVars, job>>

\* commands::restart_sidecar
MgrRestartCmd(t) ==
    /\ variant = "mgr" /\ pc[t] = "idle" /\ phase[inst[t]] = "run"
    /\ op' = [op EXCEPT ![t] = "restart"]
    /\ pc' = [pc EXCEPT ![t] = "shutdown"]
    /\ ret' = NoRet
    /\ UNCHANGED <<config, rc, wt, call, phase, child, procVars, loc, fileVars,
                   brainVars, job>>

\* lib.rs run: RunEvent::ExitRequested calls SidecarManager::shutdown.
MgrExitRequested(t) ==
    /\ variant = "mgr" /\ pc[t] = "idle" /\ phase[inst[t]] = "run"
    /\ op' = [op EXCEPT ![t] = "exit"]
    /\ pc' = [pc EXCEPT ![t] = "shutdown"]
    /\ job' = [job EXCEPT ![t].found = Found(child[inst[t]])]
    /\ ret' = NoRet
    /\ UNCHANGED <<config, rc, wt, call, phase, child, procVars, loc, fileVars, brainVars>>

\* SidecarManager::shutdown: under the lock, take the handle and kill the child.
MgrShutdown(t) ==
    /\ variant = "mgr" /\ pc[t] = "shutdown"
    /\ child' = [child EXCEPT ![inst[t]] = None]
    /\ Exit({child[inst[t]]} \cap alive)
    /\ IF op[t] \in {"restart", "update"} THEN Goto(t, "sleep") ELSE Return(t, "unit")
    /\ UNCHANGED <<config, rc, wt, call, fileVars, brainVars>>

\* restart_sidecar: thread::sleep(500 ms) between shutdown and start_sidecar.
MgrSleep(t) ==
    /\ variant = "mgr" /\ pc[t] = "sleep"
    /\ Goto(t, "health")
    /\ UNCHANGED <<config, rc, wt, call, child, procVars, fileVars, brainVars>>

\* start_sidecar: a healthy instance on the port is reused and nothing is spawned.
MgrHealth(t) ==
    /\ variant = "mgr" /\ pc[t] = "health"
    /\ IF is_sidecar_running THEN Return(t, "unit")
       ELSE Goto(t, IF release THEN "cleanup" ELSE "ensure")
    /\ UNCHANGED <<config, rc, wt, call, child, procVars, fileVars, brainVars>>

\* cleanup_stale_sidecar: the sweep by name, then the sweep of the port's listeners.
MgrCleanup(t) ==
    /\ variant = "mgr" /\ pc[t] = "cleanup"
    /\ LET byName == NameSweep(PsTable, HostPid(inst[t]))
           left == [p \in DOMAIN PsTable \ byName |-> PsTable[p]]
           byPort == PortSweep(left, {owner} \ byName)
       IN Exit((byName \cup byPort) \cap alive)
    /\ Goto(t, "ensure")
    /\ UNCHANGED <<config, rc, wt, call, child, fileVars, brainVars>>

\* Updater::ensure_installed: an existing file is made executable and used; a missing
\* one is copied from the bundle, which may not be found.
MgrEnsure(t) ==
    /\ variant = "mgr" /\ pc[t] = "ensure"
    /\ \/ /\ bin.exists
          /\ bin' = [bin EXCEPT !.exec = TRUE]
          /\ Goto(t, "spawn")
       \/ /\ ~bin.exists
          /\ bin' = [exists |-> TRUE, data |-> Bundled, exec |-> TRUE]
          /\ Goto(t, "spawn")
       \/ /\ ~bin.exists
          /\ bin' = bin
          /\ Return(t, "unit")
    /\ UNCHANGED <<config, rc, wt, call, child, procVars, old, brainVars>>

\* command.spawn(): a new process, or an error the caller is not told of.
MgrSpawn(t) ==
    /\ variant = "mgr" /\ pc[t] = "spawn"
    /\ \/ /\ Whole(bin) /\ bin.exec /\ FreePids # {}
          /\ alive' = alive \cup {FreshPid}
          /\ spawner' = [spawner EXCEPT ![FreshPid] = inst[t]]
          /\ loc' = [loc EXCEPT ![t] = FreshPid]
          /\ pc' = [pc EXCEPT ![t] = "store"]
          /\ ret' = NoRet
          /\ UNCHANGED <<owner, op, phase, job>>
       \/ /\ Return(t, "unit")
          /\ UNCHANGED procVars
    /\ UNCHANGED <<config, rc, wt, call, child, fileVars, brainVars>>

\* start_sidecar: *child_lock = Some(child), whatever the store held.
MgrStore(t) ==
    /\ variant = "mgr" /\ pc[t] = "store"
    /\ child' = [child EXCEPT ![inst[t]] = loc[t]]
    /\ Return(t, "unit")
    /\ UNCHANGED <<config, rc, wt, call, procVars, fileVars, brainVars>>

\* --------------------------------------------------- src-tauri: Updater

UpdPcs == {"u_select", "u_download", "u_kill", "u_backup", "u_extract", "u_write", "u_chmod"}

\* commands::perform_sidecar_update, given a release; one update is made at a time.
UpdateCmd(t, rel) ==
    /\ variant = "mgr" /\ pc[t] = "idle" /\ phase[inst[t]] = "run"
    /\ \A u \in Threads : op[u] # "update"
    /\ op' = [op EXCEPT ![t] = "update"]
    /\ pc' = [pc EXCEPT ![t] = "u_select"]
    /\ job' = [job EXCEPT ![t] = [NoJob EXCEPT !.assets = rel, !.bin0 = bin]]
    /\ ret' = NoRet
    /\ UNCHANGED <<config, rc, wt, call, phase, child, procVars, loc, fileVars, brainVars>>

\* A command that restarts the sidecar whatever perform_update returns.
UpdDoneRestarts(t, r) ==
    /\ pc' = [pc EXCEPT ![t] = "shutdown"]
    /\ job' = [job EXCEPT ![t] = NoJob]
    /\ ret' = NoRet
    /\ UNCHANGED <<op, loc, phase>>

\* perform_sidecar_update, once perform_update has returned r: an error is returned to
\* the caller of the command; after Ok(()) the command calls restart_sidecar.
UpdDone(t, r) ==
    IF r = "Ok"
    THEN /\ pc' = [pc EXCEPT ![t] = "shutdown"]
         /\ job' = [job EXCEPT ![t] = NoJob]
         /\ ret' = NoRet
         /\ UNCHANGED <<op, loc, phase>>
    ELSE Return(t, r)

\* perform_update: find the asset for the target, or fail.
UpdSelect(t) ==
    /\ variant = "mgr" /\ pc[t] = "u_select"
    /\ LET i == FirstAsset(job[t].assets)
       IN IF i = 0
          THEN UpdDone(t, "No matching asset found for target")
          ELSE /\ job' = [job EXCEPT ![t].assets = <<job[t].assets[i]>>]
               /\ pc' = [pc EXCEPT ![t] = "u_download"]
               /\ ret' = NoRet
               /\ UNCHANGED <<op, loc, phase>>
    /\ UNCHANGED <<config, rc, wt, call, child, procVars, fileVars, brainVars>>

\* A download that is made after the running sidecar has been killed.
UpdDownloadKillsFirst(t) ==
    /\ variant = "mgr" /\ pc[t] = "u_download"
    /\ Exit(PkillSweep(PsTable) \cap alive)
    /\ \/ Goto(t, "u_kill")
       \/ UpdDone(t, "Failed to download asset")
    /\ UNCHANGED <<config, rc, wt, call, child, fileVars, brainVars>>

\* perform_update: download the asset and write it to the temporary directory.
UpdDownload(t) ==
    /\ variant = "mgr" /\ pc[t] = "u_download"
    /\ \/ Goto(t, "u_kill")
       \/ UpdDone(t, "Failed to download asset")
    /\ UNCHANGED <<config, rc, wt, call, child, procVars, fileVars, brainVars>>

\* perform_update: pkill -f opencode-cli, its result dropped, then a 500 ms sleep.
UpdKill(t) ==
    /\ variant = "mgr" /\ pc[t] = "u_kill"
    /\ Exit(PkillSweep(PsTable) \cap alive)
    /\ job' = [job EXCEPT ![t].killed =
                    PkillSweep(PsTable) \cap alive \cap {child[inst[t]]}]
    /\ pc' = [pc EXCEPT ![t] = "u_backup"]
    /\ ret' = NoRet
    /\ UNCHANGED <<op, loc, phase>>
    /\ UNCHANGED <<config, rc, wt, call, child, fileVars, brainVars>>

\* A backup that goes on with the update when the binary could be neither renamed nor
\* removed.
BackupGoesOn(b, o, oldRemoved, renamed, removed) ==
    IF ~b.exists THEN [bin |-> b, old |-> o, backup |-> "none"]
    ELSE IF renamed THEN [bin |-> Absent, old |-> b, backup |-> "renamed"]
    ELSE [bin |-> IF removed THEN Absent ELSE b,
          old |-> IF oldRemoved THEN Absent ELSE o, backup |-> "removed"]

\* A backup whose rename leaves nothing at the .old path.
BackupLosesOld(b, o, oldRemoved, renamed, removed) ==
    IF ~b.exists THEN [bin |-> b, old |-> o, backup |-> "none"]
    ELSE IF renamed THEN [bin |-> Absent, old |-> Absent, backup |-> "renamed"]
    ELSE [bin |-> IF removed THEN Absent ELSE b,
          old |-> IF oldRemoved THEN Absent ELSE o,
          backup |-> IF removed THEN "removed" ELSE "failed"]

\* perform_update, the backup of the binary b with o at the .old path: an existing
\* binary is renamed to .old after the previous .old is removed (a failure to remove
\* it is dropped); if the rename fails the binary is removed; if that fails too the
\* backup has failed. The last three arguments say which of the calls succeed.
Backup(b, o, oldRemoved, renamed, removed) ==
    IF ~b.exists THEN [bin |-> b, old |-> o, backup |-> "none"]
    ELSE IF renamed THEN [bin |-> Absent, old |-> b, backup |-> "renamed"]
    ELSE [bin |-> IF removed THEN Absent ELSE b,
          old |-> IF oldRemoved THEN Absent ELSE o,
          backup |-> IF removed THEN "removed" ELSE "failed"]

\* perform_update: the backup; the update fails if the backup has failed.
UpdBackup(t) ==
    /\ variant = "mgr" /\ pc[t] = "u_backup"
    /\ \E oldRemoved, renamed, removed \in BOOLEAN :
          LET out == Backup(bin, old, oldRemoved, renamed, removed)
          IN /\ bin' = out.bin
             /\ old' = out.old
             /\ IF out.backup = "failed"
                THEN UpdDone(t, "Could not remove current binary")
                ELSE /\ job' = [job EXCEPT ![t].backup = out.backup]
                     /\ pc' = [pc EXCEPT ![t] = "u_extract"]
                     /\ ret' = NoRet
                     /\ UNCHANGED <<op, loc, phase>>
    /\ UNCHANGED <<config, rc, wt, call, child, procVars, brainVars>>

\* perform_update: open the archive and create the file at the installation path for
\* its first matching entry, or create it for the copy of a bare executable.
UpdExtract(t) ==
    /\ variant = "mgr" /\ pc[t] = "u_extract"
    /\ LET a == job[t].assets[1]
       IN \/ /\ IsZip(a) /\ ~a.readable
             /\ bin' = bin
             /\ UpdDone(t, "invalid Zip archive")
          \/ /\ IsZip(a) /\ a.readable /\ FirstEntry(a.entries) = 0
             /\ bin' = bin
             /\ UpdDone(t, "Could not extract executable from update archive")
          \/ /\ IsZip(a) => a.readable /\ FirstEntry(a.entries) # 0
             /\ bin' = [exists |-> TRUE, data |-> <<>>, exec |-> bin.exists /\ bin.exec]
             /\ Goto(t, IF Payload(a) = <<>> THEN "u_chmod" ELSE "u_write")
          \/ /\ IsZip(a) => a.readable /\ FirstEntry(a.entries) # 0
             /\ bin' = bin
             /\ UpdDone(t, "io error")
    /\ UNCHANGED <<config, rc, wt, call, child, procVars, old, brainVars>>

\* perform_update: io::copy / fs::copy writes the bytes one after the other, and may
\* fail after any of them.
UpdWrite(t) ==
    /\ variant = "mgr" /\ pc[t] = "u_write"
    /\ LET bytes == Payload(job[t].assets[1])
           n == Len(bin.data)
       IN \/ /\ n < Len(bytes)
             /\ bin' = [bin EXCEPT !.data = Append(@, bytes[n + 1])]
             /\ Goto(t, IF n + 1 = Len(bytes) THEN "u_chmod" ELSE "u_write")
          \/ /\ bin' = bin
             /\ UpdDone(t, "io error")
    /\ UNCHANGED <<config, rc, wt, call, child, procVars, old, brainVars>>

\* perform_update: set_permissions(0o755); then perform_sidecar_update goes on to
\* restart_sidecar.
UpdChmod(t) ==
    /\ variant = "mgr" /\ pc[t] = "u_chmod"
    /\ \/ /\ bin' = [bin EXCEPT !.exec = TRUE]
          /\ UpdDone(t, "Ok")
       \/ /\ bin' = bin
          /\ UpdDone(t, "io error")
    /\ UNCHANGED <<config, rc, wt, call, child, procVars, old, brainVars>>

\* ------------------------------------------- desktop: the brain sidecar

\* main.rs setup: block_on(spawn_brain) before any command is served.
BrainSetup(t) ==
    /\ variant = "brain" /\ pc[t] = "idle" /\ phase[inst[t]] = "boot"
    /\ op' = [op EXCEPT ![t] = "setup"]
    /\ pc' = [pc EXCEPT ![t] = "b_load"]
    /\ phase' = [phase EXCEPT ![inst[t]] = "setup"]
    /\ ret' = NoRet
    /\ UNCHANGED <<config, rc, wt, call, child, procVars, loc, fileVars, brainVars, job>>

\* A command of the desktop build: start_brain, stop_brain, or the ExitRequested
\* handler's stop_brain_sync, which skips the load of BRAIN_RUNNING.
BrainCmd(t, o) ==
    /\ variant = "brain" /\ pc[t] = "idle" /\ phase[inst[t]] = "run"
    /\ op' = [op EXCEPT ![t] = o]
    /\ pc' = [pc EXCEPT ![t] =
                IF o = "start" THEN "b_load" ELSE IF o = "stop" THEN "st_check" ELSE "st_post"]
    /\ job' = [job EXCEPT ![t].found = IF o = "start" THEN @ ELSE Found(child[inst[t]])]
    /\ ret' = NoRet
    /\ UNCHANGED <<config, rc, wt, call, phase, child, procVars, loc, fileVars, brainVars>>

\* spawn_brain: if BRAIN_RUNNING.load() { health check } else straight to the spawn.
BrainLoad(t) ==
    /\ variant = "brain" /\ pc[t] = "b_load"
    /\ Goto(t, IF running THEN "b_health" ELSE "b_spawn")
    /\ UNCHANGED <<config, rc, wt, call, child, procVars, fileVars, brainVars>>

\* spawn_brain: a healthy brain is kept; an unhealthy one is stopped and replaced.
BrainHealth(t) ==
    /\ variant = "brain" /\ pc[t] = "b_health"
    /\ IF is_sidecar_running THEN Return(t, "Ok") ELSE Goto(t, "st_check")
    /\ UNCHANGED <<config, rc, wt, call, child, procVars, fileVars, brainVars>>

\* stop_brain_internal is done: spawn_brain drops its result and goes on to spawn.
Finish(t, r) ==
    IF op[t] \in {"setup", "start"} THEN Goto(t, "b_spawn") ELSE Return(t, r)

\* stop_brain_internal(true): if graceful && BRAIN_RUNNING.load()
StopCheck(t) ==
    /\ variant = "brain" /\ pc[t] = "st_check"
    /\ Goto(t, IF running THEN "st_post" ELSE "st_kill")
    /\ UNCHANGED <<config, rc, wt, call, child, procVars, fileVars, brainVars>>

\* request_graceful_shutdown: POST /shutdown; a 2xx answer needs a serving brain.
StopPost(t) ==
    /\ variant = "brain" /\ pc[t] = "st_post"
    /\ \/ is_sidecar_running /\ Goto(t, "st_recheck")
       \/ Goto(t, "st_kill")
    /\ UNCHANGED <<config, rc, wt, call, child, procVars, fileVars, brainVars>>

\* After the grace sleep: if !BRAIN_RUNNING.load() { return "Brain stopped gracefully" }
StopRecheck(t) ==
    /\ variant = "brain" /\ pc[t] = "st_recheck"
    /\ IF ~running THEN Finish(t, "Brain stopped gracefully") ELSE Goto(t, "st_kill")
    /\ UNCHANGED <<config, rc, wt, call, child, procVars, fileVars, brainVars>>

\* What the forced kill returns: h is the handle taken from the store.
KillResult(h, killed) ==
    IF h = None THEN "Brain was not running"
    ELSE IF killed THEN "Brain stopped (forced)" ELSE "Failed to kill brain process"

\* The forced kill: lock BRAIN_PROCESS, take the handle, kill the child. A failed
\* kill returns the error with the handle already taken.
StopKill(t) ==
    /\ variant = "brain" /\ pc[t] = "st_kill" /\ lock = None
    /\ child' = [child EXCEPT ![inst[t]] = None]
    /\ \/ /\ child[inst[t]] = None
          /\ Finish(t, KillResult(None, FALSE))
          /\ UNCHANGED <<procVars, lock>>
       \/ /\ child[inst[t]] # None
          /\ Exit({child[inst[t]]} \cap alive)
          /\ lock' = t
          /\ Goto(t, "st_unflag")
       \/ /\ child[inst[t]] # None
          /\ Finish(t, KillResult(child[inst[t]], FALSE))
          /\ UNCHANGED <<procVars, lock>>
    /\ UNCHANGED <<config, rc, wt, call, fileVars, running, rx>>

\* After a successful kill, still under the lock: BRAIN_RUNNING.store(false).
StopUnflag(t) ==
    /\ variant = "brain" /\ pc[t] = "st_unflag"
    /\ running' = FALSE
    /\ lock' = None
    /\ Finish(t, KillResult(1, TRUE))
    /\ UNCHANGED <<config, rc, wt, call, child, procVars, fileVars, rx>>

\* spawn_brain: shell.sidecar(..).spawn() gives the child and its event receiver.
BrainSpawn(t) ==
    /\ variant = "brain" /\ pc[t] = "b_spawn"
    /\ \/ /\ FreePids # {}
          /\ alive' = alive \cup {FreshPid}
          /\ spawner' = [spawner EXCEPT ![FreshPid] = inst[t]]
          /\ rx' = [rx EXCEPT ![FreshPid] = "open"]
          /\ loc' = [loc EXCEPT ![t] = FreshPid]
          /\ pc' = [pc EXCEPT ![t] = "b_store"]
          /\ ret' = NoRet
          /\ UNCHANGED <<owner, op, phase, job>>
       \/ /\ Return(t, "Failed to spawn brain process")
          /\ UNCHANGED <<procVars, rx>>
    /\ UNCHANGED <<config, rc, wt, call, child, fileVars, running, lock>>

\* spawn_brain: *process = Some(child) under the lock, whatever the store held.
BrainStore(t) ==
    /\ variant = "brain" /\ pc[t] = "b_store" /\ lock = None
    /\ child' = [child EXCEPT ![inst[t]] = loc[t]]
    /\ loc' = [loc EXCEPT ![t] = None]
    /\ pc' = [pc EXCEPT ![t] = "b_setflag"]
    /\ ret' = NoRet
    /\ UNCHANGED <<config, rc, wt, call, phase, procVars, op, fileVars, brainVars, job>>

\* spawn_brain: BRAIN_RUNNING.store(true), after the lock is released.
BrainSetFlag(t) ==
    /\ variant = "brain" /\ pc[t] = "b_setflag"
    /\ running' = TRUE
    /\ Goto(t, "b_wait")
    /\ UNCHANGED <<config, rc, wt, call, child, procVars, fileVars, lock, rx>>

\* wait_for_brain_ready: Ok at the first healthy probe, Err once the time is up.
BrainWait(t) ==
    /\ variant = "brain" /\ pc[t] = "b_wait"
    /\ IF is_sidecar_running THEN Return(t, "Ok")
       ELSE Return(t, "Brain failed to become ready within timeout")
    /\ UNCHANGED <<config, rc, wt, call, child, procVars, fileVars, brainVars>>

\* The event task of child p receives Terminated: BRAIN_RUNNING.store(false) ...
RxTerminated(p) ==
    /\ variant = "brain" /\ rx[p] = "open" /\ p \notin alive
    /\ running' = FALSE
    /\ rx' = [rx EXCEPT ![p] = "clear"]
    /\ ret' = NoRet
    /\ UNCHANGED <<config, rc, wt, call, phase, child, procVars, pc, op, loc, fileVars,
                   lock, job>>

\* ... and then, under the lock, *process = None, whichever child the store holds.
RxClear(p) ==
    /\ variant = "brain" /\ rx[p] = "clear" /\ lock = None
    /\ child' = [child EXCEPT ![1] = None]
    /\ rx' = [rx EXCEPT ![p] = "none"]
    /\ ret' = NoRet
    /\ UNCHANGED <<config, rc, wt, call, phase, procVars, pc, op, loc, fileVars,
                   running, lock, job>>

\* ------------------------------------- cleanup_stale_sidecar, run alone

\* The state of the supervisor's world, which a run of the reclaimer alone leaves as
\* it is.
rest == <<config, phase, child, procVars, pc, op, loc, fileVars, brainVars, job, wt, call>>

\* cleanup_stale_sidecar: `ps -A -o pid,comm`, and `kill pid` for every line the sweep
\* by name picks; if ps cannot be run the sweep is skipped.
RcNameSweep ==
    /\ variant = "reclaim" /\ rc.step = "ps"
    /\ \/ rc' = [rc EXCEPT !.sig = @ \cup NameSweep(RcTable, rc.self), !.step = "probe"]
       \/ rc' = [rc EXCEPT !.step = "probe"]
    /\ ret' = NoRet
    /\ UNCHANGED rest

\* cleanup_stale_sidecar: after the sleep, TcpStream::connect_timeout to the port; the
\* reclaimer returns if nothing accepts.
RcProbe ==
    /\ variant = "reclaim" /\ rc.step = "probe"
    /\ rc' = [rc EXCEPT !.step = IF rc.listen = {} THEN "done" ELSE "lsof"]
    /\ ret' = NoRet
    /\ UNCHANGED rest

\* cleanup_stale_sidecar: `lsof -t -i :port -sTCP:LISTEN`, and `kill pid` for every
\* listener the sweep of the port picks; the reclaimer returns if lsof cannot be run.
RcPortSweep ==
    /\ variant = "reclaim" /\ rc.step = "lsof"
    /\ \/ rc' = [rc EXCEPT !.sig = @ \cup PortSweep(RcTable, rc.listen), !.step = "done"]
       \/ rc' = [rc EXCEPT !.step = "done"]
    /\ ret' = NoRet
    /\ UNCHANGED rest

\* A process that was sent SIGTERM exits, at some time or never.
RcExit(p) ==
    /\ variant = "reclaim" /\ p \in rc.sig \cap rc.live
    /\ rc' = [rc EXCEPT !.live = @ \ {p}, !.listen = @ \ {p}]
    /\ ret' = NoRet
    /\ UNCHANGED rest

\* --------------------------- wait_for_healthy / wait_for_brain_ready, run alone

\* What a run of the wait alone leaves as it is.
restOfWait ==
    <<config, phase, child, procVars, pc, op, loc, fileVars, brainVars, job, rc, call>>

Later(n, d) == IF n + d > STARTUP_POLLS THEN STARTUP_POLLS ELSE n + d

\* wait_for_healthy: one turn of the loop up to the sleep: a probe with outcome o; a
\* healthy probe ends the wait, and so does the attempt after the 30th; both ways the
\* function returns ().
WaitProbeMgr(o) ==
    /\ variant = "wait" /\ wt.build = "mgr" /\ wt.step = "probe"
    /\ wt' = IF ProbeMgr(o)
             THEN [wt EXCEPT !.last = o, !.step = "done", !.result = "unit"]
             ELSE IF wt.attempts + 1 > WAIT_ATTEMPTS
                  THEN [wt EXCEPT !.last = o, !.attempts = @ + 1, !.step = "done",
                                  !.result = "unit"]
                  ELSE [wt EXCEPT !.last = o, !.attempts = @ + 1, !.step = "sleep"]
    /\ ret' = NoRet
    /\ UNCHANGED restOfWait

\* wait_for_brain_ready: one turn of the loop up to the sleep: the test of the time
\* elapsed, then a probe with outcome o that takes d polls.
WaitProbeBrain(o, d) ==
    /\ variant = "wait" /\ wt.build = "brain" /\ wt.step = "probe"
    /\ wt' = IF wt.elapsed >= STARTUP_POLLS
             THEN [wt EXCEPT !.step = "done",
                             !.result = "Brain failed to become ready within timeout"]
             ELSE IF ProbeBrain(o)
                  THEN [wt EXCEPT !.last = o, !.elapsed = Later(@, d), !.step = "done",
                                  !.result = "Ok"]
                  ELSE [wt EXCEPT !.last = o, !.elapsed = Later(@, d), !.attempts = 1,
                                  !.step = "sleep"]
    /\ ret' = NoRet
    /\ UNCHANGED restOfWait

\* thread::sleep(500 ms) / tokio::time::sleep(STARTUP_POLL_INTERVAL)
WaitSleep ==
    /\ variant = "wait" /\ wt.step = "sleep"
    /\ wt' = [wt EXCEPT !.step = "probe",
                        !.elapsed = IF wt.build = "brain" THEN Later(@, 1) ELSE @]
    /\ ret' = NoRet
    /\ UNCHANGED restOfWait

\* ------------------------------------------- the version functions, run alone

restOfCall ==
    <<config, phase, child, procVars, pc, op, loc, fileVars, brainVars, job, rc, wt>>

\* check_sidecar_update: the comparison of the two versions it has fetched.
CheckUpdate ==
    /\ variant = "call" /\ call.f = "check" /\ ~call.done
    /\ call' = [call EXCEPT !.done = TRUE,
                            !.out = IsUpdateAvailable(call.current, call.latest)]
    /\ ret' = NoRet
    /\ UNCHANGED restOfCall

\* Updater::get_current_version, called by get_sidecar_version and
\* check_sidecar_update, which return its error to their caller.
GetVersion ==
    /\ variant = "call" /\ call.f = "version" /\ ~call.done
    /\ call' = [call EXCEPT !.done = TRUE,
                            !.res = get_current_version(call.path, call.exists, call.exec,
                                                        call.stdout)]
    /\ ret' = NoRet
    /\ UNCHANGED restOfCall

\* ------------------------------------------------------- environment

\* A starting sidecar binds the free port and serves /health.
EnvServe(p) ==
    /\ p \in alive /\ owner = None
    /\ owner' = p
    /\ ret' = NoRet
    /\ UNCHANGED <<config, rc, wt, call, phase, child, alive, spawner, pc, op, loc,
                   fileVars, brainVars, job>>

\* A sidecar exits on its own (a crash, or the port it wanted is taken).
EnvExit(p) ==
    /\ p \in alive
    /\ Exit({p})
    /\ ret' = NoRet
    /\ UNCHANGED <<config, rc, wt, call, phase, child, pc, op, loc, fileVars,
                   brainVars, job>>

\* ------------------------------------------------------ specification

InitShared ==
    /\ phase = [i \in Insts |-> "boot"]
    /\ child = [i \in Insts |-> None]
    /\ pc = [t \in Threads |-> "idle"]
    /\ op = [t \in Threads |-> "none"]
    /\ loc = [t \in Threads |-> None]
    /\ ret = NoRet
    \* A sidecar of an earlier session may still run, serving or not.
    /\ alive \in {{}, {1}}
    /\ owner \in {None} \cup alive
    /\ spawner = [p \in Pids |-> 0]
    /\ old = Absent
    /\ running = FALSE
    /\ lock = None
    /\ rx = [p \in Pids |-> "none"]
    /\ job = [t \in Threads |-> NoJob]
    /\ rc = NoRc
    /\ wt = NoWait
    /\ call = NoCall

\* The src-tauri build: nothing stops two instances of the application.
InitMgr ==
    /\ variant = "mgr"
    /\ release \in BOOLEAN
    /\ inst \in {f \in [Threads -> Insts] : f[1] = 1}
    /\ bin \in {Absent, Installed(0)}
    /\ InitShared

\* The desktop build: tauri_plugin_single_instance keeps it to one instance.
InitBrain ==
    /\ variant = "brain"
    /\ release = FALSE
    /\ inst = [t \in Threads |-> 1]
    /\ bin = Absent
    /\ InitShared

Init == InitMgr \/ InitBrain

\* A step of thread t in the sidecar manager of the src-tauri build.
MgrStep(t) ==
    \/ MgrSetup(t)
    \/ MgrRestartCmd(t)
    \/ MgrExitRequested(t)
    \/ MgrShutdown(t)
    \/ MgrSleep(t)
    \/ MgrHealth(t)
    \/ MgrCleanup(t)
    \/ MgrEnsure(t)
    \/ MgrSpawn(t)
    \/ MgrStore(t)

\* A step of thread t in the updater of the src-tauri build.
UpdStep(t) ==
    \/ \E rel \in Releases : UpdateCmd(t, rel)
    \/ UpdSelect(t)
    \/ UpdDownload(t)
    \/ UpdKill(t)
    \/ UpdBackup(t)
    \/ UpdExtract(t)
    \/ UpdWrite(t)
    \/ UpdChmod(t)

NextMgr == \E t \in Threads : MgrStep(t)

NextUpd == \E t \in Threads : UpdStep(t)

NextBrain ==
    \/ \E t \in Threads : BrainSetup(t)
    \/ \E t \in Threads, o \in {"start", "stop", "exit"} : BrainCmd(t, o)
    \/ \E t \in Threads : BrainLoad(t)
    \/ \E t \in Threads : BrainHealth(t)
    \/ \E t \in Threads : StopCheck(t)
    \/ \E t \in Threads : StopPost(t)
    \/ \E t \in Threads : StopRecheck(t)
    \/ \E t \in Threads : StopKill(t)
    \/ \E t \in Threads : StopUnflag(t)
    \/ \E t \in Threads : BrainSpawn(t)
    \/ \E t \in Threads : BrainStore(t)
    \/ \E t \in Threads : BrainSetFlag(t)
    \/ \E t \in Threads : BrainWait(t)
    \/ \E p \in Pids : RxTerminated(p)
    \/ \E p \in Pids : RxClear(p)

NextEnv ==
    \/ \E p \in Pids : EnvServe(p)
    \/ \E p \in Pids : EnvExit(p)

Next == NextMgr \/ NextBrain \/ NextEnv

Spec == Init /\ [][Next]_vars

\* The reclaimer run alone: any names for the processes of the machine, any of them
\* the current process, any others listening on the port. The application does not
\* listen on its sidecar's port.
InitReclaim ==
    /\ variant = "reclaim"
    /\ release = TRUE
    /\ inst = [t \in Threads |-> 1]
    /\ bin = Absent
    /\ phase = [i \in Insts |-> "boot"]
    /\ child = [i \in Insts |-> None]
    /\ pc = [t \in Threads |-> "idle"]
    /\ op = [t \in Threads |-> "none"]
    /\ loc = [t \in Threads |-> None]
    /\ ret = NoRet
    /\ alive = {} /\ owner = None
    /\ spawner = [p \in Pids |-> 0]
    /\ old = Absent
    /\ running = FALSE
    /\ lock = None
    /\ rx = [p \in Pids |-> "none"]
    /\ job = [t \in Threads |-> NoJob]
    /\ wt = NoWait
    /\ call = NoCall
    /\ \E tab \in [RcPids -> RcNames], self \in RcPids :
          \E listen \in SUBSET (RcPids \ {self}) :
              rc = [tab |-> tab, live |-> RcPids, listen |-> listen, self |-> self,
                    step |-> "ps", sig |-> {}]

NextReclaim ==
    \/ RcNameSweep
    \/ RcProbe
    \/ RcPortSweep
    \/ \E p \in RcPids : RcExit(p)

SpecReclaim == InitReclaim /\ [][NextReclaim]_vars

\* Nothing of the supervisor's world is under way.
Quiet ==
    /\ release = FALSE
    /\ inst = [t \in Threads |-> 1]
    /\ bin = Absent /\ old = Absent
    /\ phase = [i \in Insts |-> "boot"]
    /\ child = [i \in Insts |-> None]
    /\ pc = [t \in Threads |-> "idle"]
    /\ op = [t \in Threads |-> "none"]
    /\ loc = [t \in Threads |-> None]
    /\ ret = NoRet
    /\ alive = {} /\ owner = None
    /\ spawner = [p \in Pids |-> 0]
    /\ running = FALSE
    /\ lock = None
    /\ rx = [p \in Pids |-> "none"]
    /\ job = [t \in Threads |-> NoJob]

\* The wait run alone, in either build, against a port that gives any outcome to
\* each probe.
InitWait ==
    /\ variant = "wait"
    /\ Quiet
    /\ rc = NoRc
    /\ call = NoCall
    /\ \E b \in {"mgr", "brain"} : wt = [NoWait EXCEPT !.build = b, !.step = "probe"]

NextWait ==
    \/ \E o \in Outcomes : WaitProbeMgr(o)
    \/ \E o \in Outcomes, d \in {0, HEALTH_POLLS} : WaitProbeBrain(o, d)
    \/ WaitSleep

SpecWait == InitWait /\ [][NextWait]_vars

\* The wait with its steps taken as long as there is one to take.
FairWait == SpecWait /\ WF_vars(NextWait)

\* The comparison of versions alone, for every pair of version strings.
InitCheck ==
    /\ variant = "call"
    /\ Quiet
    /\ rc = NoRc
    /\ wt = NoWait
    /\ \E c, l \in VersionStrings :
          call = [NoCall EXCEPT !.f = "check", !.current = c, !.latest = l]

SpecCheck == InitCheck /\ [][CheckUpdate]_vars

\* The version query alone, for every state of the installation path and every outcome
\* of running the binary.
InitVersion ==
    /\ variant = "call"
    /\ Quiet
    /\ rc = NoRc
    /\ wt = NoWait
    /\ \E path \in {"ok", "unresolved"}, exists \in BOOLEAN,
          exec \in {"cannot run", "nonzero", "ok"}, stdout \in Stdouts :
          call = [NoCall EXCEPT !.f = "version", !.path = path, !.exists = exists,
                                !.exec = exec, !.stdout = stdout]

SpecVersion == InitVersion /\ [][GetVersion]_vars

\* The src-tauri build alone, and the desktop build alone.
SpecMgr == InitMgr /\ [][NextMgr \/ NextEnv]_vars
SpecBrain == InitBrain /\ [][NextBrain \/ NextEnv]_vars

\* The steps the src-tauri application takes by itself: its setup, and every step of a
\* call once a command has begun it. Commands are the user's to give or not.
MgrRuns(t) ==
    \/ MgrSetup(t)
    \/ MgrShutdown(t)
    \/ MgrSleep(t)
    \/ MgrHealth(t)
    \/ MgrCleanup(t)
    \/ MgrEnsure(t)
    \/ MgrSpawn(t)
    \/ MgrStore(t)

\* The src-tauri build with every thread scheduled as long as it has a step to take.
FairMgr == SpecMgr /\ \A t \in Threads : WF_vars(MgrRuns(t))

\* The src-tauri build with its calls made one after the other, by one thread.
SpecInstall == InitMgr /\ [][MgrStep(1) \/ UpdStep(1) \/ NextEnv]_vars

\* One instance of the src-tauri build, its commands running concurrently, the update
\* command among them.
InitUpdate == InitMgr /\ inst = [t \in Threads |-> 1]
SpecUpdate == InitUpdate /\ [][NextMgr \/ NextUpd \/ NextEnv]_vars

\* ------------------------------------------------------------ claims

\* The live sidecars the instance i spawned.
LiveChildren(i) == {p \in alive : spawner[p] = i}
\* The children a start has spawned and is about to store.
InFlight == {loc[t] : t \in Threads} \ {None}

\* C1: whatever start, stop and restart calls are made, an instance never has more
\* than one live child of its own, and every live child of its own is the one in
\* its handle store (or one a start has just spawned and is about to store): no
\* live child has had its handle dropped.
C1_SingleLiveChild ==
    \A i \in Insts :
        /\ Cardinality(LiveChildren(i)) <= 1
        /\ LiveChildren(i) \subseteq {child[i]} \cup InFlight

\* A thread that has run the first step of a start, shutdown or restart and has
\* not returned yet.
Inside(t) ==
    \/ pc[t] \in {"sleep", "cleanup", "ensure", "spawn", "store"}
    \/ pc[t] = "health" /\ op[t] = "restart"

\* C2: start, shutdown and restart of one instance exclude each other: no two
\* calls are under way at once, and when none is under way the live children of
\* the instance are what a serial order leaves: at most the child in the store.
C2_MutuallyExclusive ==
    /\ \A t, u \in Threads :
            t # u /\ inst[t] = inst[u] => ~(Inside(t) /\ Inside(u))
    /\ \A i \in Insts :
            (\A t \in Threads : inst[t] = i => pc[t] = "idle")
                => LiveChildren(i) \subseteq {child[i]}

\* C4: a shutdown that begins with the handle store empty returns the non-error
\* "was not running" result (the unit value, for SidecarManager::shutdown), and
\* leaves the handle store and the running flag as it found them.
C4_ShutdownIdempotent ==
    [][\A t \in Threads :
          ret'.t = t /\ ret'.o \in {"stop", "exit"} /\ job[t].found[1]
              => /\ ret'.r \in {"unit", "Brain was not running"}
                 /\ child'[inst[t]] = None
                 /\ running' = job[t].found[2]]_vars

UpdateErrors ==
    {"No matching asset found for target", "Failed to download asset",
     "Could not remove current binary", "invalid Zip archive",
     "Could not extract executable from update archive", "io error"}

\* C6: the file at the installation path is never half-written: if there is a file it
\* is a complete binary, the previous one or the new one.
C6_NeverHalfWritten == bin.exists => Whole(bin)

\* C7, as stated: an update whose rename of the binary to .old has failed does not
\* install, and it leaves no half-written file at the installation path as it returns.
C7_RenameFailureFails ==
    [][\A t \in Threads :
          job[t].backup = "removed"
              => /\ ~(pc[t] = "u_chmod" /\ pc'[t] = "shutdown")
                 /\ ret'.t = t => (bin'.exists => Whole(bin'))]_vars

\* C7, amended: if the binary can be neither renamed to .old nor removed (it is still
\* at the installation path after the backup), the update returns the error, and the
\* installation path holds the file it held.
C7_BackupFailureFails ==
    [][\A t \in Threads :
          pc[t] = "u_backup" /\ pc'[t] # "u_backup" /\ bin.exists /\ bin'.exists
              => /\ ret'.t = t /\ ret'.r = "Could not remove current binary"
                 /\ bin' = bin]_vars

\* An update has just failed because its binary could be neither renamed nor removed.
C7_Witness ==
    /\ ret.o = "update" /\ ret.r = "Could not remove current binary"
    /\ Whole(bin)

\* C8: an update that fails after its rename of the binary to .old succeeded leaves at
\* the .old path the bytes that were at the installation path as the update began.
C8_BackupKept ==
    [][\A t \in Threads :
          ret'.t = t /\ ret'.o = "update" /\ ret'.r \in UpdateErrors
            /\ job[t].backup = "renamed"
              => old'.exists /\ old'.data = job[t].bin0.data]_vars

\* An update has just failed in its copy, with half of the new binary written and the
\* previous binary at the .old path.
C8_Witness ==
    /\ ret.o = "update" /\ ret.r = "io error"
    /\ bin.exists /\ ~Whole(bin)
    /\ old = Installed(0)

\* C9: from the updater's kill to the end of its write to the installation path, no
\* sidecar process is running.
C9_NoSidecarDuringInstall ==
    \A t \in Threads :
        pc[t] \in {"u_backup", "u_extract", "u_write", "u_chmod"} => alive = {}

\* C10: two instances of the application never both hold a live sidecar child.
C10_OneSidecarPerPort ==
    Cardinality({i \in Insts : child[i] # None /\ child[i] \in alive}) <= 1

\* C11: the wait ends with success when a probe was healthy, and otherwise with a
\* timeout failure given to its caller.
C11_TimeoutIsReported ==
    wt.step = "done"
        => (wt.result \in {"unit", "Ok"}
                <=> IF wt.build = "mgr" THEN ProbeMgr(wt.last) ELSE ProbeBrain(wt.last))

\* The wait comes to an end, whatever the probes give.
WaitTerminates == <>(wt.step = "done")

\* C12: a probe whose outcome is a failure of the connection or a status other than 2xx
\* is false.
C12_ProbeIsFalseOnFailure ==
    LET o == wt.last
    IN o.kind # "response" \/ o.code[1] # "2"
          => ~(IF wt.build = "mgr" THEN ProbeMgr(o) ELSE ProbeBrain(o))

\* The number a semantic version stands for, its identifiers being below 100.
NumericKey(v) == 10000 * v[1] + 100 * v[2] + v[3]
BothSemver(a, b) == SemverParse(StripV(a)).ok /\ SemverParse(StripV(b)).ok

\* C13: for two strings that are semantic versions once their leading "v" is stripped,
\* an update is available exactly when the latest is numerically greater than the
\* current, and never in both directions.
C13_NumericComparison ==
    call.f = "check" /\ call.done /\ BothSemver(call.current, call.latest)
        => /\ call.out <=> NumericKey(SemverParse(StripV(call.latest)).v)
                             > NumericKey(SemverParse(StripV(call.current)).v)
           /\ ~(call.out /\ IsUpdateAvailable(call.latest, call.current))

\* 1.10.0 has been found to be an update of v1.3.0: it is greater by number, and is not
\* by text.
C13_Witness ==
    /\ call.done /\ call.out
    /\ call.current = <<"v", "1", ".", "3", ".", "0">>
    /\ call.latest = <<"1", ".", "1", "0", ".", "0">>

\* C14: when one of the two stripped strings is no semantic version, an update is
\* available exactly when the stripped strings differ and the latest is not "0.0.0";
\* and no string is an update of itself.
C14_TextualFallback ==
    call.f = "check" /\ call.done
        => /\ ~BothSemver(call.current, call.latest)
                => (call.out <=> /\ StripV(call.latest) # StripV(call.current)
                                 /\ StripV(call.latest) # SENTINEL)
           /\ ~IsUpdateAvailable(call.current, call.current)

\* The sentinel has been found to be no update of a current version that is no semantic
\* version.
C14_Witness ==
    /\ call.done /\ ~call.out
    /\ call.latest = <<"v">> \o SENTINEL
    /\ call.current = <<"n", "i", "g", "h", "t", "l", "y", "-", "b", "u", "i", "l", "d", "-", "7">>

\* C15: the version query returns no error: when the path cannot be resolved, the file
\* is missing, the binary cannot be run or exits with a failure, it returns "0.0.0".
C15_VersionQueryNeverFails ==
    call.f = "version" /\ call.done
        => /\ ~call.res.err
           /\ (call.path # "ok" \/ ~call.exists \/ call.exec # "ok")
                 => call.res.value = SENTINEL

\* C16: with no file at the installation path the version is "0.0.0" and the binary is
\* not invoked; when the binary exits with success the version is the last word of
\* its trimmed output if that word holds a ".", and the trimmed output otherwise:
\* "opencode 1.4.2" gives "1.4.2".
C16_VersionParsing ==
    call.f = "version" /\ call.done /\ call.path = "ok"
        => /\ ~call.exists => call.res = [err |-> FALSE, value |-> SENTINEL, invoked |-> FALSE]
           /\ call.exists /\ call.exec = "ok"
                => LET t == Trim(call.stdout)
                       v == call.res.value
                   IN /\ ~call.res.err
                      /\ \/ v = t /\ \A i \in 1..Len(t) :
                                         (\A j \in i..Len(t) : t[j] \notin Whitespace)
                                             => \A j \in i..Len(t) : t[j] # "."
                         \/ /\ \E i \in 1..Len(t) :
                                  /\ v = SubSeq(t, i, Len(t))
                                  /\ i > 1 => t[i - 1] \in Whitespace
                            /\ \A j \in 1..Len(v) : v[j] \notin Whitespace
                            /\ \E j \in 1..Len(v) : v[j] = "."
                      /\ call.stdout = <<"o", "p", "e", "n", "c", "o", "d", "e", " ", "1", ".", "4", ".", "2">> => v = <<"1", ".", "4", ".", "2">>

\* The version has been read from the output "opencode 1.4.2".
C16_Witness ==
    /\ call.f = "version" /\ call.done
    /\ call.exists /\ call.exec = "ok" /\ call.stdout = <<"o", "p", "e", "n", "c", "o", "d", "e", " ", "1", ".", "4", ".", "2">>
    /\ call.res.value = <<"1", ".", "4", ".", "2">>

\* C17: a successful install of a bare executable leaves the installation path
\* executable and holding the downloaded bytes; a successful install of an archive
\* leaves it holding the contents of the entry that matches the executable's name, no
\* directory and no unrelated entry; and the install of an archive with no such entry
\* fails.
C17_InstallRoundTrip ==
    [][\A t \in Threads :
          LET a == job[t].assets[1]
              exes == {i \in 1..Len(a.entries) :
                          /\ Contains(a.entries[i].name, <<"opencode">>)
                          /\ a.entries[i].name[Len(a.entries[i].name)] # "/"}
          IN /\ pc[t] = "u_chmod" /\ pc'[t] = "shutdown"
                  => /\ bin'.exists /\ bin'.exec
                     /\ IF IsZip(a)
                        THEN \E i \in exes : bin'.data = a.entries[i].data
                        ELSE bin'.data = a.data
             /\ pc[t] = "u_extract" /\ IsZip(a) /\ exes = {}
                  => ret'.t = t /\ ret'.r \in UpdateErrors /\ bin' = bin]_vars

\* The copy of the executable of an archive to the installation path is complete.
C17_Witness ==
    /\ pc[1] = "u_chmod"
    /\ IsZip(job[1].assets[1])
    /\ bin.data = Binary(1)

\* C18: the install starts no sidecar; the update command begins the restart only as
\* the install ends with success, the new binary whole and executable; and an error
\* of the install is returned to the caller of the command with no restart begun.
C18_RestartAfterInstall ==
    [][\A t \in Threads :
          op[t] = "update"
              => /\ pc[t] \in UpdPcs => alive' \subseteq alive /\ child' = child
                 /\ pc[t] # "shutdown" /\ pc'[t] = "shutdown"
                        => pc[t] = "u_chmod" /\ Whole(bin') /\ bin'.exec
                 /\ pc[t] \in UpdPcs /\ pc'[t] \notin UpdPcs \cup {"shutdown"}
                        => ret'.t = t /\ ret'.r \in UpdateErrors /\ pc'[t] = "idle"
                 /\ ret'.t = t /\ ret'.r \in UpdateErrors => pc[t] \in UpdPcs]_vars

\* The update command is at its restart, the new binary installed.
C18_Witness ==
    /\ op[1] = "update" /\ pc[1] = "shutdown"
    /\ bin = Installed(1)

\* The results with which a shutdown succeeds.
StopSuccesses ==
    {"unit", "Brain stopped gracefully", "Brain stopped (forced)", "Brain was not running"}

\* C19: when a shutdown returns success the handle store is empty and the running flag
\* is false; it reports a graceful stop only after its POST /shutdown, with no forced
\* kill, and otherwise takes the stored handle and kills the child.
C19_ShutdownLeavesNothing ==
    [][\A t \in Threads :
          ret'.t = t /\ ret'.o \in {"stop", "exit"} /\ ret'.r \in StopSuccesses
              => /\ child'[inst[t]] = None /\ ~running'
                 /\ ret'.r = "Brain stopped gracefully" <=> pc[t] = "st_recheck"]_vars

\* How far a restart has come: shutdown, the delay, then start_sidecar step by step.
RestartRank(label) ==
    CASE label = "shutdown" -> 1 [] label = "sleep" -> 2 [] label = "health" -> 3
      [] label = "cleanup" -> 4 [] label = "ensure" -> 5 [] label = "spawn" -> 6
      [] label = "store" -> 7 [] OTHER -> 8

C21_TimeoutLeavesAbsent ==
    [][\A t \in Threads :
          ret'.t = t /\ ret'.r = "Brain failed to become ready within timeout"
              => child'[inst[t]] = None /\ ~running']_vars

\* C22: a start that cannot install or spawn the sidecar returns a failure to its caller,
\* with the handle store empty and the running flag false.
C22_SpawnFailureIsReported ==
    [][\A t \in Threads :
          pc[t] \in {"ensure", "spawn", "b_spawn"} /\ pc'[t] = "idle"
              => /\ ret'.t = t /\ ret'.r \notin {"unit", "Ok"}
                 /\ child'[inst[t]] = None /\ ~running']_vars

\* C23: once the child in the handle store of a running application has exited, the
\* store comes to hold it no longer.
C23_ExitClearsStore ==
    \A i \in Insts : \A p \in Pids :
        (child[i] = p /\ p \notin alive /\ phase[i] = "run")
            ~> (child[i] # p \/ phase[i] # "run")

\* C24: a step of the task that drains a child's output and observes its exit leaves
\* the handle store as it is.
C24_DrainLeavesStore ==
    [][\A p \in Pids : rx[p] # "none" /\ rx'[p] # rx[p] => child' = child]_vars

\* C25: the handle store and the running flag change as one: the flag is never seen
\* true with the store empty, nor false with the handle of a live child in the store.
C25_HandleAndFlagAgree ==
    /\ running => child[1] # None
    /\ ~running => child[1] \notin alive

\* The errors perform_update returns before it has killed or written anything.
EarlyErrors == {"No matching asset found for target", "Failed to download asset"}

\* C26: an update with no asset for the target, or whose download fails, returns its
\* error before any other step: up to that return it ends no process and changes
\* neither the handle store, the installation path nor the .old backup, and the
\* installation path holds what it held as the update began.
C26_EarlyErrorsTouchNothing ==
    [][\A t \in Threads :
          /\ op[t] = "update" /\ pc[t] \in {"u_select", "u_download"} /\ pc'[t] # pc[t]
                => /\ alive' = alive /\ owner' = owner /\ child' = child
                   /\ bin' = bin /\ old' = old
                   /\ pc[t] = "u_select" /\ FirstAsset(job[t].assets) = 0
                         => ret'.t = t /\ ret'.r = "No matching asset found for target"
                   /\ pc'[t] = "idle"
                         => ret'.t = t /\ ret'.r \in EarlyErrors /\ bin' = job[t].bin0
          /\ ret'.t = t /\ ret'.o = "update" /\ ret'.r \in EarlyErrors
                => pc[t] \in {"u_select", "u_download"}]_vars

\* An update has failed in its download with a sidecar running and a binary installed.
C26_Witness ==
    /\ ret.o = "update" /\ ret.r = "Failed to download asset"
    /\ alive # {} /\ bin.exists

\* C27: the probe is true for every response of status 2xx, whatever the HTTP version,
\* and false for every response of another status.
C27_Any2xxIsHealthy ==
    LET o == wt.last
    IN o.kind = "response"
          => ((IF wt.build = "mgr" THEN ProbeMgr(o) ELSE ProbeBrain(o)) <=> o.code[1] = "2")

\* C28: the exit task of a child changes neither the handle store nor the running flag
\* when the store holds another child.
C28_StaleExitIsIgnored ==
    [][\A p \in Pids :
          rx[p] # "none" /\ rx'[p] # rx[p] /\ child[1] \notin {None, p}
              => child' = child /\ running' = running]_vars

\* C29: a stop whose forced kill fails returns the error with the handle still in the
\* store and the running flag as it was.
C29_FailedKillKeepsHandle ==
    [][\A t \in Threads :
          ret'.t = t /\ ret'.r = "Failed to kill brain process"
              => /\ child[inst[t]] # None /\ child' = child
                 /\ running' = running]_vars

\* C30: a step of a shutdown or of a restart ends no process but the one in the handle
\* store of its instance; a restart that finds a healthy instance on the port returns
\* with the processes, the port and the handle store as they were.
C30_OnlyStoredChildKilled ==
    [][\A t \in Threads :
          op[t] \in {"restart", "exit"} /\ pc'[t] # pc[t]
              => /\ alive \ alive' \subseteq {child[inst[t]]}
                 /\ op[t] = "restart" /\ pc[t] = "health" /\ is_sidecar_running
                       => /\ pc'[t] = "idle"
                          /\ alive' = alive /\ owner' = owner /\ child' = child]_vars

\* C31: when the exit handler of an application returns, the handle store of the
\* application is empty and no child whose handle it has stored is alive.
C31_NoChildOutlivesExit ==
    [][\A t \in Threads :
          ret'.t = t /\ ret'.o = "exit"
              => /\ child'[inst[t]] = None
                 /\ \A p \in alive' \ {loc'[u] : u \in Threads} :
                        spawner'[p] # inst[t]]_vars

\* C32: the .old backup, whenever there is one, is a complete binary.
C32_BackupIsComplete == old.exists => Whole(old)

\* C33: an update command that returns an error after its pkill has ended the child in
\* the handle store has started a sidecar again: as it returns, the store holds a
\* live child, not the handle of the one that was killed.
C33_FailedUpdateRestarts ==
    [][\A t \in Threads :
          ret'.t = t /\ ret'.o = "update" /\ ret'.r \in UpdateErrors
                /\ child[inst[t]] \in job[t].killed
              => child'[inst[t]] \in alive' \ job[t].killed]_vars

\* C3: a start that begins while the port answers /health adopts that instance:
\* its first step returns or goes on to probe the port, never on to reclaim or
\* spawn, and it changes neither the handle store nor the set of processes.
C3_StartAdopts ==
    [][\A t \in Threads :
          pc[t] \in {"health", "b_load"} /\ pc'[t] # pc[t] /\ is_sidecar_running
              => /\ pc'[t] \in {"idle", "b_health"}
                 /\ child' = child /\ alive' = alive]_vars

====
